---------------------------- MODULE Spec2Model ----------------------------
(***************************************************************************)
(* A model of synthtest: the AudioSample types (src/src/wav.rs), the       *)
(* AudioData buffer with its positional write / saturating add and its WAV *)
(* encoder (src/src/wav.rs), and the Instrument rate adapters              *)
(* (src/src/basic.rs).                                                     *)
(*                                                                         *)
(* Conventions.                                                            *)
(*  - A frame [T; N] is a sequence of N integers; the Vec<[T; N]> is a     *)
(*    sequence of frames.  Rust index i is TLA+ index i + 1.               *)
(*  - A u32 is kept at its width as a pair <<hi, lo>> of 16-bit limbs,     *)
(*    because 2^32 - 1 is not a value TLC's integers hold.                 *)
(*  - An f64 time is an exact rational, counted in units of 1/TimeDen      *)
(*    seconds; the rounding of f64 additions is not modelled.              *)
(***************************************************************************)
EXTENDS Integers, Sequences, FiniteSets, TLC

VARIABLES
    T,            \* the sample type parameter T of AudioData<T, N> / the adapters
    N,            \* the channel count, the const generic N
    sample_rate,  \* AudioData::sample_rate, a u32 as limbs
    data,         \* AudioData::data
    last,         \* the most recent call on the buffer: its name, arguments, the
                  \* data before it and its result
    file,         \* the bytes of the file save_to has written (<<>>: none yet)
    calls,        \* number of calls made on the buffer
    adapter,      \* which rate adapter was constructed: "mono" or "multi"
    instrument,   \* the Instrument the adapter borrows
    time,         \* InstrumentIterMono::time
    tick,         \* InstrumentIterMono::tick
    trace         \* the adapter's history: start time, calls to next, the times
                  \* the source was queried at, what source and adapter returned

vars == <<T, N, sample_rate, data, last, file, calls,
          adapter, instrument, time, tick, trace>>

bufVars == <<T, N, sample_rate, data, last, file, calls>>
iterVars == <<adapter, instrument, time, tick, trace>>

-----------------------------------------------------------------------------
(* Bounds of the model. *)

\* calls made on one buffer
MaxCalls == 2
\* largest init_sample passed to write_data_at / add_data_at
MaxStart == 2
\* longest finite iterator passed to extend_data / write_data_at / add_data_at
MaxIter == 2
\* an I/O failure is injected at File::create (0) or at the k-th write_all,
\* k <= MaxFailAt
MaxFailAt == 1
\* calls to next on one adapter
MaxNext == 3
\* resolution of time: one unit is 1/TimeDen seconds
TimeDen == 44100

-----------------------------------------------------------------------------
(* wav.rs: the sample types *)

SampleTypes == {"u8", "i16", "i32"}

Channels == {1, 2}

\* the instantiations <<T, N>> of AudioData<T, N> and of the adapters that are
\* examined: every sample type and every channel count, main.rs's
\* AudioData::<i16, 1> among them
TypeParams == {<<"u8", 1>>, <<"i16", 1>>, <<"i32", 2>>}

ZERO(t) == IF t = "u8" THEN 128 ELSE 0

MIN(t) == CASE t = "u8" -> 0
            [] t = "i16" -> -32768
            [] t = "i32" -> -2147483647 - 1

MAX(t) == CASE t = "u8" -> 255
            [] t = "i16" -> 32767
            [] t = "i32" -> 2147483647

\* mem::size_of::<T>()
size_of(t) == CASE t = "u8" -> 1
                [] t = "i16" -> 2
                [] t = "i32" -> 4

\* a + b wrapped to the width of t (what `+` does in a release build)
wrapping_add(t, a, b) ==
    CASE t = "u8" -> (a + b) % 256
      [] t = "i16" -> ((a + b + 32768) % 65536) - 32768
      [] t = "i32" ->
           LET lo == (a % 65536) + (b % 65536)
               hi == (a \div 65536) + (b \div 65536) + (lo \div 65536)
           IN  (((hi + 32768) % 65536) - 32768) * 65536 + (lo % 65536)

\* T::saturating_add (the primitive's inherent method): the sum, or the bound
\* of the type on the side the sum overflows.  Written with differences that
\* stay inside the type, as the overflow itself cannot be computed.
saturating_add(t, a, b) ==
    IF b >= 0
    THEN IF a > MAX(t) - b THEN MAX(t) ELSE a + b
    ELSE IF a < MIN(t) - b THEN MIN(t) ELSE a + b

\* [T::ZERO; N]
ZeroFrame == [c \in 1..N |-> ZERO(T)]


-----------------------------------------------------------------------------
(* wav.rs: AudioData, the buffer *)

\* resize, as it would be with the guard on the length left out
\* (Vec::resize truncates a longer vector)
resize_unguarded(d, sample_count) ==
    IF Len(d) < sample_count
    THEN d \o [i \in 1..(sample_count - Len(d)) |-> ZeroFrame]
    ELSE SubSeq(d, 1, sample_count)

\* resize filling with the numeric zero instead of T::ZERO
resize_numeric_zero(d, sample_count) ==
    IF Len(d) < sample_count
    THEN d \o [i \in 1..(sample_count - Len(d)) |-> [c \in 1..N |-> 0]]
    ELSE d

\* AudioData::resize: grows the vector to sample_count frames with ZERO frames,
\* and leaves a vector that is long enough alone
resize(d, sample_count) ==
    IF Len(d) < sample_count
    THEN d \o [i \in 1..(sample_count - Len(d)) |-> ZeroFrame]
    ELSE d

\* the closure of add_data_at: each channel of x becomes the saturating sum
\* of itself and the same channel of y (x.iter_mut().zip(&y))
add_closure(x, y) == [c \in 1..N |-> saturating_add(T, x[c], y[c])]

\* the closure of write_data_at mixing instead of overwriting
write_closure_mixing(x, y) == [c \in 1..N |-> saturating_add(T, x[c], y[c])]

\* the closure of write_data_at: *x = y
write_closure(x, y) == y

\* f(&mut x, y) for the closure do_data was given; the value x holds afterwards
call_f(f, x, y) == IF f = "write" THEN write_closure(x, y) ELSE add_closure(x, y)

\* do_data's second loop: while let Some(t) = iter.next() { push ZERO; f(last, t) }
RECURSIVE while_loop(_, _, _)
while_loop(d, iter, f) ==
    IF iter = <<>>
    THEN d
    ELSE while_loop(Append(d, call_f(f, ZeroFrame, Head(iter))), Tail(iter), f)

\* do_data's first loop: for i in init_sample..len, with len read once before
\* the loop; it returns from do_data when the iterator ends inside the range
RECURSIVE for_loop(_, _, _, _, _)
for_loop(d, i, len, iter, f) ==
    IF i >= len
    THEN while_loop(d, iter, f)
    ELSE IF iter = <<>>
         THEN d
         ELSE for_loop([d EXCEPT ![i + 1] = call_f(f, d[i + 1], Head(iter))],
                       i + 1, len, Tail(iter), f)

\* do_data visiting from index 0 instead of init_sample
do_data_from_zero(d, init_sample, iter, f) ==
    LET r == resize(d, init_sample)
    IN  for_loop(r, 0, Len(r), iter, f)

\* do_data dropping what lies behind the frames it visited
do_data_truncating(d, init_sample, iter, f) ==
    LET r == resize(d, init_sample)
    IN  SubSeq(for_loop(r, init_sample, Len(r), iter, f), 1, init_sample + Len(iter))

\* AudioData::do_data
do_data(d, init_sample, iter, f) ==
    LET r == resize(d, init_sample)
    IN  for_loop(r, init_sample, Len(r), iter, f)

\* Vec::push
push_data(d, sample) == Append(d, sample)

\* Vec::extend
extend_data(d, iter) == d \o iter

write_data_at(d, init_sample, iter) == do_data(d, init_sample, iter, "write")

add_data_at(d, init_sample, iter) == do_data(d, init_sample, iter, "add")

-----------------------------------------------------------------------------
(* The inputs the model draws. *)

InputSamples(t) == {MIN(t), MAX(t)}

\* the frame whose odd channels (the first, the third, ...) hold v and whose
\* even channels hold the other input sample: the channels of a frame differ
\* as soon as there are two
InputFrame(v) ==
    [c \in 1..N |-> IF c % 2 = 1 THEN v
                    ELSE IF v = MIN(T) THEN MAX(T) ELSE MIN(T)]

InputFrames == {InputFrame(v) : v \in InputSamples(T)}

\* the finite iterators of at most k frames
Iters(k) == UNION {[1..n -> InputFrames] : n \in 0..k}

Call(op, init_sample, iter, result) ==
    [op |-> op, init_sample |-> init_sample, iter |-> iter, old |-> data,
     result |-> result]


-----------------------------------------------------------------------------
(* u32 and u16 arithmetic at its width.  A u32 is <<hi, lo>>, two 16-bit    *)
(* limbs; a product or sum is [val, ovf]: the value wrapped to 32 bits and  *)
(* whether the exact result did not fit.                                   *)

\* n as u32, for 0 <= n < 2^31
U32(n) == <<(n \div 65536) % 65536, n % 65536>>

\* x * m in u32, for a multiplier m < 2^15
mul_u32(x, m) ==
    LET lo == x[2] * m
        hi == x[1] * m + (lo \div 65536)
    IN  [val |-> <<hi % 65536, lo % 65536>>, ovf |-> hi >= 65536]

\* m + x in u32, for m < 2^15
add_u32(m, x) ==
    LET lo == x[2] + m
        hi == x[1] + (lo \div 65536)
    IN  [val |-> <<hi % 65536, lo % 65536>>, ovf |-> hi >= 65536]

\* a * b in u16
mul_u16(a, b) == [val |-> (a * b) % 65536, ovf |-> a * b >= 65536]

\* u16::to_le_bytes
le_bytes_u16(n) == <<n % 256, n \div 256>>

\* u32::to_le_bytes
le_bytes_u32(x) == le_bytes_u16(x[2]) \o le_bytes_u16(x[1])

\* AudioSample::to_le_bytes: the two's complement of the value, least
\* significant byte first, size_of::<T>() bytes
to_le_bytes(t, v) ==
    CASE t = "u8" -> <<v>>
      [] t = "i16" -> le_bytes_u16(v % 65536)
      [] t = "i32" -> le_bytes_u16(v % 65536) \o le_bytes_u16((v \div 65536) % 65536)

-----------------------------------------------------------------------------
(* wav.rs: the encoder *)

\* byte_rate leaving the channel count out
byte_rate_mono(rate, n, t) == mul_u32(rate, size_of(t))

\* AudioData::byte_rate: (sample_rate * N as u32) * size_of::<T>() as u32
byte_rate(rate, n, t) ==
    LET a == mul_u32(rate, n)
        b == mul_u32(a.val, size_of(t))
    IN  [val |-> b.val, ovf |-> a.ovf \/ b.ovf]

\* AudioData::block_align: N as u16 * size_of::<T>() as u16
block_align(n, t) == mul_u16(n % 65536, size_of(t))

\* let size = (self.data.len() as u32 * size_of::<T>() as u32) * N as u32
data_size(d, n, t) ==
    LET a == mul_u32(U32(Len(d)), size_of(t))
        b == mul_u32(a.val, n)
    IN  [val |-> b.val, ovf |-> a.ovf \/ b.ovf]

\* the bytes of one frame: each channel's to_le_bytes in order
RECURSIVE frame_writes(_, _)
frame_writes(t, sample) ==
    IF sample = <<>> THEN <<>>
    ELSE <<to_le_bytes(t, Head(sample))>> \o frame_writes(t, Tail(sample))

\* for sample in &self.data { for channel in sample { write_all(..) } }
RECURSIVE data_writes(_, _)
data_writes(t, d) ==
    IF d = <<>> THEN <<>>
    ELSE frame_writes(t, Head(d)) \o data_writes(t, Tail(d))

\* the byte strings save_to hands to write_all, in order
writes(d, rate, n, t) ==
    << <<82, 73, 70, 70>>,                              \* b"RIFF"
       le_bytes_u32(add_u32(36, data_size(d, n, t).val).val),
       <<87, 65, 86, 69, 102, 109, 116, 32>>,           \* b"WAVEfmt "
       <<16, 0, 0, 0, 1, 0>>,
       le_bytes_u16(n % 65536),
       le_bytes_u32(rate),
       le_bytes_u32(byte_rate(rate, n, t).val),
       le_bytes_u16(block_align(n, t).val),
       le_bytes_u16((size_of(t) * 8) % 65536),
       <<100, 97, 116, 97>>,                            \* b"data"
       le_bytes_u32(data_size(d, n, t).val) >>
    \o data_writes(t, d)

\* the first arithmetic overflow of save_to, as the number of write_all calls
\* completed before it: -1 before File::create (line 163), -2 for none
overflow_at(d, rate, n, t) ==
    CASE data_size(d, n, t).ovf -> -1
      [] ~data_size(d, n, t).ovf /\ add_u32(36, data_size(d, n, t).val).ovf -> 1
      [] OTHER ->
           IF byte_rate(rate, n, t).ovf THEN 6
           ELSE IF block_align(n, t).ovf THEN 7
           ELSE -2

RECURSIVE concat(_)
concat(chunks) == IF chunks = <<>> THEN <<>> ELSE Head(chunks) \o concat(Tail(chunks))

\* AudioData::save_to.  fail = 0: File::create fails; fail = k > 0: the k-th
\* write_all fails; fail = -1: the file system accepts everything.
\* overflow_checks: whether the build panics on arithmetic overflow (a debug
\* build) or wraps (a release build).  The result is the call's outcome and
\* the content of the file afterwards.
save_to(d, rate, n, t, f, fail, overflow_checks) ==
    LET w == writes(d, rate, n, t)
        p == overflow_at(d, rate, n, t)
        panics == overflow_checks /\ p # -2
    IN  IF panics /\ p = -1 THEN [result |-> "panic", file |-> f]
        ELSE IF fail = 0 THEN [result |-> "Err", file |-> f]
        ELSE IF panics /\ (fail = -1 \/ fail > p)
             THEN [result |-> "panic", file |-> concat(SubSeq(w, 1, p))]
        ELSE IF fail > 0 /\ fail <= Len(w)
             THEN [result |-> "Err", file |-> concat(SubSeq(w, 1, fail - 1))]
        ELSE [result |-> "Ok", file |-> concat(w)]


-----------------------------------------------------------------------------
(* The buffer as a state machine: AudioData::new, then any calls. *)

\* main.rs: const DEFAULT_SAMPLE_RATE
DEFAULT_SAMPLE_RATE == 44100

\* the sample rates given to AudioData::new where the encoder is examined:
\* 8000, 44100 and u32::MAX
SaveRates == {U32(8000), U32(DEFAULT_SAMPLE_RATE), <<65535, 65535>>}

NoAdapter ==
    /\ adapter = "none"
    /\ instrument = [kind |-> "none", freq |-> 0]
    /\ time = 0
    /\ tick = 0
    /\ trace = <<>>

\* AudioData::new(sample_rate)
new(rate) ==
    /\ sample_rate = rate
    /\ data = <<>>
    /\ last = [op |-> "new", init_sample |-> 0, iter |-> <<>>, old |-> <<>>,
               result |-> "()"]
    /\ file = <<>>
    /\ calls = 0

Init ==
    /\ \E p \in TypeParams : T = p[1] /\ N = p[2]
    /\ new(U32(DEFAULT_SAMPLE_RATE))
    /\ NoAdapter

InitSave ==
    /\ T \in SampleTypes
    /\ N \in Channels
    /\ \E rate \in SaveRates : new(rate)
    /\ NoAdapter

PushData ==
    /\ calls < MaxCalls
    /\ \E sample \in InputFrames :
         /\ data' = push_data(data, sample)
         /\ last' = Call("push_data", 0, <<sample>>, "()")
    /\ calls' = calls + 1
    /\ UNCHANGED <<T, N, sample_rate, file>>
    /\ UNCHANGED iterVars

ExtendData ==
    /\ calls < MaxCalls
    /\ \E iter \in Iters(MaxIter) :
         /\ data' = extend_data(data, iter)
         /\ last' = Call("extend_data", 0, iter, "()")
    /\ calls' = calls + 1
    /\ UNCHANGED <<T, N, sample_rate, file>>
    /\ UNCHANGED iterVars

WriteDataAt ==
    /\ calls < MaxCalls
    /\ \E init_sample \in 0..MaxStart, iter \in Iters(MaxIter) :
         /\ data' = write_data_at(data, init_sample, iter)
         /\ last' = Call("write_data_at", init_sample, iter, "()")
    /\ calls' = calls + 1
    /\ UNCHANGED <<T, N, sample_rate, file>>
    /\ UNCHANGED iterVars

AddDataAt ==
    /\ calls < MaxCalls
    /\ \E init_sample \in 0..MaxStart, iter \in Iters(MaxIter) :
         /\ data' = add_data_at(data, init_sample, iter)
         /\ last' = Call("add_data_at", init_sample, iter, "()")
    /\ calls' = calls + 1
    /\ UNCHANGED <<T, N, sample_rate, file>>
    /\ UNCHANGED iterVars

SaveTo ==
    /\ calls < MaxCalls
    /\ \E fail \in -1..MaxFailAt, overflow_checks \in BOOLEAN :
         LET r == save_to(data, sample_rate, N, T, file, fail, overflow_checks)
         IN  /\ file' = r.file
             /\ last' = Call("save_to", 0, <<>>, r.result)
    /\ calls' = calls + 1
    /\ UNCHANGED <<T, N, sample_rate, data>>
    /\ UNCHANGED iterVars

Next ==
    \/ PushData
    \/ ExtendData
    \/ WriteDataAt
    \/ AddDataAt
    \/ SaveTo

Spec == Init /\ [][Next]_vars

\* a buffer of any sample rate that is filled and then saved
NextSave ==
    \/ PushData
    \/ ExtendData
    \/ SaveTo

SpecSave == InitSave /\ [][NextSave]_vars


-----------------------------------------------------------------------------
(* basic.rs: instruments and the rate adapters.  An Option is a record     *)
(* [some, val].                                                            *)

Some(v) == [some |-> TRUE, val |-> v]

\* None of Option<T>
NoneMono == [some |-> FALSE, val |-> 0]

\* None of Option<[T; N]>
NoneFrame == [some |-> FALSE, val |-> <<>>]

\* AudioSample::from_f64(x) for x = p / TimeDen in [0, 1):
\* (Self::MAX as f64 * x) as Self, the product cut to an integer.  The
\* product is split so that no intermediate value leaves 32 bits.
from_f64(t, p) ==
    (MAX(t) \div TimeDen) * p + ((MAX(t) % TimeDen) * p) \div TimeDen

\* time * self.freq % 1.0, as a numerator over TimeDen
phase(tm, freq) == (tm * freq) % TimeDen

\* the values Random's uniform stream over [0, 1) is taken to draw, as
\* numerators over TimeDen
Draws == {0, TimeDen \div 2, TimeDen - 1}

\* Instrument::get_sample_mono(time): the set of results the call can have.
\*   Square, Saw: a function of time.  Random: the next draw of the stream,
\*   which never ends.  Other: any implementation of the trait, which may
\*   return any sample or None at any call.
get_sample_mono(ins, tm) ==
    CASE ins.kind = "Square" ->
           {Some(IF 2 * phase(tm, ins.freq) < TimeDen THEN MIN(T) ELSE MAX(T))}
      [] ins.kind = "Saw" -> {Some(from_f64(T, phase(tm, ins.freq)))}
      [] ins.kind = "Random" -> {Some(from_f64(T, x)) : x \in Draws}
      [] OTHER -> {NoneMono} \cup {Some(v) : v \in InputSamples(T)}

\* get_sample answering silence where the mono sample is None
get_sample_or_zero(mono) ==
    IF mono.some THEN Some([c \in 1..N |-> mono.val]) ELSE Some(ZeroFrame)

\* Instrument::get_sample, given what get_sample_mono(time) returned:
\* Some([self.get_sample_mono(time)?; N])
get_sample(mono) ==
    IF mono.some THEN Some([c \in 1..N |-> mono.val]) ELSE NoneFrame

\* next sampling before it advances the cursor
advance_after(tm, tk) == [time |-> tm + tk, at |-> tm]

\* the first two lines of next, for both adapters: self.time += self.tick,
\* then the source is called with self.time.  time: the cursor afterwards;
\* at: the time handed to the source.
advance(tm, tk) == [time |-> tm + tk, at |-> tm + tk]

\* the instruments examined: the three of basic.rs at their default frequency
\* and at a quarter of the highest sample rate, and another implementation
Instruments ==
    {[kind |-> k, freq |-> f] : k \in {"Square", "Saw"}, f \in {440, 11025}}
    \cup {[kind |-> "Random", freq |-> 0], [kind |-> "Other", freq |-> 0]}

\* the sample rates given to the adapters
Rates == {44100, 22050, 8820}

\* the start times given to new_with_time, in units of 1/TimeDen: 0 (what new
\* passes) and half a second
StartTimes == {0, TimeDen \div 2}

NoBuffer ==
    /\ new(U32(0))

\* InstrumentIterMono::new_with_time / InstrumentIter::new_with_time
new_with_time(ins, tm, rate) ==
    /\ instrument = ins
    /\ time = tm
    /\ tick = TimeDen \div rate         \* 1.0 / sample_rate as f64
    /\ trace = [start |-> tm, nexts |-> 0, queried |-> <<>>,
                src |-> NoneMono, out |-> NoneMono]

InitIter ==
    /\ T \in SampleTypes
    /\ N \in Channels
    /\ NoBuffer
    /\ adapter \in {"mono", "multi"}
    /\ \E ins \in Instruments, tm \in StartTimes, rate \in Rates :
         new_with_time(ins, tm, rate)

\* InstrumentIterMono::next
NextMono ==
    /\ adapter = "mono"
    /\ trace.nexts < MaxNext
    /\ LET a == advance(time, tick)
       IN  /\ time' = a.time
           /\ \E r \in get_sample_mono(instrument, a.at) :
                trace' = [trace EXCEPT !.nexts = @ + 1,
                                       !.queried = Append(@, a.at),
                                       !.src = r,
                                       !.out = r]
    /\ UNCHANGED <<adapter, instrument, tick>>
    /\ UNCHANGED bufVars

\* InstrumentIter::next
NextMulti ==
    /\ adapter = "multi"
    /\ trace.nexts < MaxNext
    /\ LET a == advance(time, tick)
       IN  /\ time' = a.time
           /\ \E r \in get_sample_mono(instrument, a.at) :
                trace' = [trace EXCEPT !.nexts = @ + 1,
                                       !.queried = Append(@, a.at),
                                       !.src = r,
                                       !.out = get_sample(r)]
    /\ UNCHANGED <<adapter, instrument, tick>>
    /\ UNCHANGED bufVars

NextIter ==
    \/ NextMono
    \/ NextMulti

SpecIter == InitIter /\ [][NextIter]_vars


-----------------------------------------------------------------------------
(* What the properties below speak of: the most recent call on the buffer. *)

IsWriteOrAdd == last.op \in {"write_data_at", "add_data_at"}

\* the call's start index S, the number L of frames it was given, and the
\* length len0 of the buffer before it
CallS == last.init_sample
CallL == Len(last.iter)
CallLen0 == Len(last.old)

\* the frame at (0-based) index i before / after the call
OldFrame(i) == last.old[i + 1]
NewFrame(i) == data[i + 1]

\* the frame the call found at index i: the old one, or the ZERO frame that
\* growth put there
FoundFrame(i) == IF i < CallLen0 THEN OldFrame(i) ELSE ZeroFrame

Max2(a, b) == IF a >= b THEN a ELSE b
Min2(a, b) == IF a <= b THEN a ELSE b

\* An integer of up to 33 bits as <<hi, lo>> with value hi * 65536 + lo and
\* lo in 0..65535, so that the exact sum of two i32 can be written down.
Limbs(v) == <<v \div 65536, v % 65536>>

ExactSum(a, b) ==
    LET lo == (a % 65536) + (b % 65536)
    IN  <<(a \div 65536) + (b \div 65536) + (lo \div 65536), lo % 65536>>

LimbLess(x, y) == x[1] < y[1] \/ (x[1] = y[1] /\ x[2] < y[2])

\* a + b clamped to [MIN, MAX] of the sample type, from the exact sum
Clamped(t, a, b) ==
    LET sum == ExactSum(a, b)
    IN  IF LimbLess(Limbs(MAX(t)), sum) THEN MAX(t)
        ELSE IF LimbLess(sum, Limbs(MIN(t))) THEN MIN(t)
        ELSE sum[1] * 65536 + sum[2]

-----------------------------------------------------------------------------
\* C1: a write_data_at or add_data_at call with start index S and L frames on
\* a buffer of length len0 < S leaves a buffer of length exactly S + L whose
\* frames at [len0, S) are ZERO frames and whose frames at [0, len0) are what
\* they were.
C1_GrowthInvariant ==
    (IsWriteOrAdd /\ CallLen0 < CallS) =>
        /\ Len(data) = CallS + CallL
        /\ \A i \in CallLen0..(CallS - 1) : NewFrame(i) = ZeroFrame
        /\ \A i \in 0..(CallLen0 - 1) : NewFrame(i) = OldFrame(i)

\* an add past the end of a buffer that holds a frame: a gap and a prefix
C1_Witness ==
    /\ last.op = "add_data_at"
    /\ CallLen0 = 1 /\ CallS = 2 /\ CallL = 2
    /\ Len(data) = 4
    /\ NewFrame(1) = ZeroFrame
    /\ NewFrame(0) = OldFrame(0)

\* C2: after any write_data_at or add_data_at call with start index S and L
\* frames the buffer holds at least S + L frames, and every frame below S that
\* existed before the call is untouched.
C2_GrowthPolicy ==
    IsWriteOrAdd =>
        /\ Len(data) >= CallS + CallL
        /\ \A i \in 0..(Min2(CallS, CallLen0) - 1) : NewFrame(i) = OldFrame(i)

\* a write into the middle of a buffer: a frame below S, one overwritten, one
\* appended
C2_Witness ==
    /\ last.op = "write_data_at"
    /\ CallLen0 = 2 /\ CallS = 1 /\ CallL = 2
    /\ Len(data) = 3
    /\ NewFrame(0) = OldFrame(0)
    /\ NewFrame(1) # OldFrame(1)

\* C3: add_data_at stores, in each channel of each frame it visits, the sum of
\* what it found there and the incoming value clamped to [MIN, MAX] of the
\* sample type: never above MAX, never below MIN, never wrapped.
C3_SaturatingAdd ==
    last.op = "add_data_at" =>
        \A i \in 0..(CallL - 1) : \A c \in 1..N :
            LET r == NewFrame(CallS + i)[c]
            IN  /\ r = Clamped(T, FoundFrame(CallS + i)[c], last.iter[i + 1][c])
                /\ MIN(T) <= r /\ r <= MAX(T)

\* i16: [MAX, MAX] added at 0 onto [MAX, MIN] gives [MAX, -1]: the first sum
\* is clamped, the second is exact
C3_Witness ==
    /\ last.op = "add_data_at"
    /\ T = "i16" /\ N = 1
    /\ CallS = 0
    /\ last.old = << <<32767>>, <<-32768>> >>
    /\ last.iter = << <<32767>>, <<32767>> >>
    /\ data = << <<32767>>, <<-1>> >>

\* C4: after write_data_at(S, seq) the frame at S + i is seq[i] for every i
\* below the length of seq, whatever was there and whether the index existed.
C4_WriteStoresSequence ==
    last.op = "write_data_at" =>
        \A i \in 0..(CallL - 1) : NewFrame(CallS + i) = last.iter[i + 1]

\* two different frames written at the last index of a buffer: one index
\* existed and held something else, the other is new
C4_Witness ==
    /\ last.op = "write_data_at"
    /\ CallLen0 = 2 /\ CallS = 1 /\ CallL = 2
    /\ last.iter[1] # last.iter[2]
    /\ OldFrame(1) # last.iter[1]
    /\ NewFrame(1) = last.iter[1]
    /\ NewFrame(2) = last.iter[2]

\* C8: the buffer never shrinks: after every call (push_data, extend_data,
\* write_data_at, add_data_at, save_to) it is at least as long as before.
C8_LengthNeverShrinks == Len(data) >= Len(last.old)

\* a write that ends before the end of the buffer
C8_Witness ==
    /\ last.op = "write_data_at"
    /\ CallLen0 = 2 /\ CallS = 0 /\ CallL = 1
    /\ Len(data) = 2

\* C9: write_data_at and add_data_at touch only [S, S + L): the length
\* afterwards is max(len0, S + L) and every frame at S + L or beyond that
\* existed before is unchanged.
C9_WindowOnly ==
    IsWriteOrAdd =>
        /\ Len(data) = Max2(CallLen0, CallS + CallL)
        /\ \A i \in (CallS + CallL)..(CallLen0 - 1) : NewFrame(i) = OldFrame(i)

\* an add that ends before the end of the buffer and changes what it visits
C9_Witness ==
    /\ last.op = "add_data_at"
    /\ CallLen0 = 2 /\ CallS = 0 /\ CallL = 1
    /\ Len(data) = 2
    /\ NewFrame(0) # OldFrame(0)
    /\ NewFrame(1) = OldFrame(1)

\* C10: ZERO is the identity of add_data_at's combine for every sample type:
\* where add_data_at finds a frame whose channels all hold ZERO (a frame it
\* created by growth among them), the frame afterwards is the incoming frame.
C10_ZeroIsIdentity ==
    last.op = "add_data_at" =>
        \A i \in 0..(CallL - 1) :
            FoundFrame(CallS + i) = ZeroFrame =>
                NewFrame(CallS + i) = last.iter[i + 1]


-----------------------------------------------------------------------------
\* C5: both rate adapters advance the cursor by tick before they sample: the
\* k-th call to next queries the source at start_time + k * tick, the first at
\* start_time + tick and not at start_time, and each call queries the source
\* exactly once.
C5_AdvanceBeforeSample ==
    /\ Len(trace.queried) = trace.nexts
    /\ \A k \in 1..trace.nexts : trace.queried[k] = trace.start + k * tick
    /\ trace.nexts >= 1 => trace.queried[1] # trace.start
    /\ time = trace.start + trace.nexts * tick

\* the multi-channel adapter, started at half a second, called three times
C5_Witness ==
    /\ adapter = "multi"
    /\ trace.nexts = 3
    /\ trace.start = TimeDen \div 2
    /\ tick = 5
    /\ trace.queried = <<trace.start + 5, trace.start + 10, trace.start + 15>>

\* C6: a call to next returns None exactly when the source returned None for
\* that tick, and an adapter over a source that never returns None (Square,
\* Saw, Random) returns a sample at every call.
C6_EndsWithSource ==
    trace.nexts >= 1 =>
        /\ trace.out.some <=> trace.src.some
        /\ instrument.kind \in {"Square", "Saw", "Random"} => trace.out.some

\* the multi-channel adapter over a source that returns None at its second
\* call
C6_Witness ==
    /\ adapter = "multi"
    /\ instrument.kind = "Other"
    /\ trace.nexts = 2
    /\ ~trace.src.some
    /\ trace.out = NoneFrame

-----------------------------------------------------------------------------
(* The header of the file save_to wrote, read back from its bytes. *)

\* the little-endian u16 at byte offset off, and the u32 there as limbs
U16At(off) == file[off + 1] + 256 * file[off + 2]
U32At(off) == <<U16At(off + 2), U16At(off)>>

\* the exact product of a u32 and a small number, as three 16-bit limbs
ExactProduct(x, m) ==
    LET lo == x[2] * m
        mid == x[1] * m + (lo \div 65536)
    IN  <<mid \div 65536, mid % 65536, lo % 65536>>

SavedOk == last.op = "save_to" /\ last.result = "Ok"

\* frame_count * N * B, exactly
ExactDataSize == ExactProduct(U32(Len(data)), N * size_of(T))

HeaderAsClaimed ==
    /\ Len(file) >= 44
    /\ <<0>> \o U32At(40) = ExactDataSize
    /\ U32At(4) = U32(36 + Len(data) * N * size_of(T))
    /\ U16At(32) = N * size_of(T)
    /\ U16At(34) = size_of(T) * 8
    /\ <<0>> \o U32At(28) = ExactProduct(sample_rate, U16At(32))

\* frame_count * N * B + 36 and R * N * B are below 2^32, N * B below 2^16
FieldsFit ==
    /\ ExactDataSize[1] = 0
    /\ ExactDataSize[2] < 65535 \/ ExactDataSize[3] + 36 < 65536
    /\ ExactProduct(sample_rate, N * size_of(T))[1] = 0
    /\ N * size_of(T) < 65536

\* C7 as stated: for every buffer, the header save_to writes has data size
\* frame_count * N * B, chunk size 36 + data size, block align N * B, bits per
\* sample B * 8 and byte rate R * block align.
C7_HeaderForEveryBuffer == SavedOk => HeaderAsClaimed

\* C7 as amended: the same, for the buffers whose sizes and rates fit the
\* header's fields.
C7_HeaderWhenFieldsFit == (SavedOk /\ FieldsFit) => HeaderAsClaimed

\* two frames, one channel, 16 bits, 8000 Hz: data size 4, chunk size 40,
\* byte rate 16000, block align 2, 16 bits per sample, 48 bytes in all
C7_Witness ==
    /\ SavedOk
    /\ T = "i16" /\ N = 1 /\ sample_rate = U32(8000) /\ Len(data) = 2
    /\ U32At(40) = <<0, 4>>
    /\ U32At(4) = <<0, 40>>
    /\ U32At(28) = <<0, 16000>>
    /\ U16At(32) = 2
    /\ U16At(34) = 16
    /\ Len(file) = 48

=============================================================================
